---- MODULE Spec2Model ----
(***************************************************************************)
(* goesmirror.mirror_s3: mirroring of an hour-partitioned remote store to  *)
(* a local directory tree.  Times are counted in units since an epoch,     *)
(* UnitsPerHour units to the hour; a file name is a sequence of characters *)
(* whose fields are separated by "_".                                      *)
(***************************************************************************)
EXTENDS Integers, Sequences, FiniteSets, TLC

VARIABLES
    products, sats, start_time, end_time, overwrite, test, fn_filter,
    remote,     \* the store: aws_dir -> listing of [name, Size]
    local,      \* the local files: local_file -> size
    dirs,       \* the local directories that exist
    pc,         \* position of the driver in mirror_s3
    pi, si, h,  \* index of product, index of sat, the bucket cursor
    files, fi,  \* the listing of the current bucket and the loop index in it
    jobs,       \* indices (in tasks) of the delayed downloads of this bucket
    tasks,      \* every delayed download created in this run
    listed,     \* aws_dir of every fs.ls call of this run, in order
    reported,   \* aws_dir of every "Unable to find" message of this run
    diffs,      \* what should_download read, saw and answered, per call
    caught,     \* the exceptions the except clause has absorbed
    err,        \* the exception that left mirror_s3, or "none"
    run,        \* 1 in the first run, 2 in the run after it
    first,      \* how the first run ended
    local0, dirs0   \* local and dirs when the current run started

args == <<products, sats, start_time, end_time, overwrite, test, fn_filter>>
env == <<remote, local, dirs>>
driver == <<pc, pi, si, h, files, fi, jobs>>
hist == <<listed, reported, diffs, caught, err>>
runs == <<run, first, local0, dirs0>>
vars == <<args, env, driver, tasks, hist, runs>>

----------------------------------------------------------------------------
(* Bounds of the model *)
MaxTime == 3          \* start_time and end_time range over 0..MaxTime
UnitsPerHour == 2     \* time units in one hour
NumWorkers == 2       \* worker processes of the batch scheduler

EpochHour == 23       \* hour of day of time 0
EpochDay == 1         \* day of year of time 0

Times == 0..MaxTime
HourIdx(t) == t \div UnitsPerHour
Hours == {HourIdx(t) : t \in Times}

Digits == <<"0", "1", "2", "3", "4", "5", "6", "7", "8", "9">>
IsDigit(c) == \E i \in 1..Len(Digits) : Digits[i] = c
DigitVal(c) == (CHOOSE i \in 1..Len(Digits) : Digits[i] = c) - 1

----------------------------------------------------------------------------
(* Strings and paths *)

Last(s) == s[Len(s)]

\* str.split(sep): the fields of s between the occurrences of sep
RECURSIVE SplitFrom(_, _, _, _)
SplitFrom(s, sep, i, cur) ==
    IF i > Len(s) THEN <<cur>>
    ELSE IF s[i] = sep THEN <<cur>> \o SplitFrom(s, sep, i + 1, <<>>)
    ELSE SplitFrom(s, sep, i + 1, Append(cur, s[i]))
Split(s, sep) == SplitFrom(s, sep, 1, <<>>)

\* s[1:-1]
Strip(s) == IF Len(s) < 2 THEN <<>> ELSE SubSeq(s, 2, Len(s) - 1)

\* datetime(year, month, day, hour) of a time: the start of its hour
FloorHour(t) == t - (t % UnitsPerHour)

\* h.strftime("%Y"), h.strftime("%j"), h.strftime("%H")
StrfHour(t) == (EpochHour + HourIdx(t)) % 24
StrfDay(t) == EpochDay + ((EpochHour + HourIdx(t)) \div 24)
StrfYear(t) == 2020
Partition(t) == <<StrfYear(t), StrfDay(t), StrfHour(t)>>

AwsDir(sat, product, t) == <<"s3:", <<"noaa-goes", sat>>, product>> \o Partition(t)
\* a local directory that leaves the product out
LocalDirNoProduct(sat, product, t) == <<"mirror_dir", <<"noaa-goes", sat>>>> \o Partition(t)
LocalDir(sat, product, t) == <<"mirror_dir", <<"noaa-goes", sat>>, product>> \o Partition(t)
PathJoin(dir, fn) == Append(dir, fn)

\* datetime.strptime(file_parts[3][1:-1], ...): a time, or the exception raised
ParseTime(fn) ==
    LET file_parts == Split(fn, "_") IN
    IF Len(file_parts) < 4 THEN [exc |-> "IndexError"]
    ELSE LET timestamp == Strip(file_parts[4]) IN
         IF /\ Len(timestamp) = 2
            /\ IsDigit(timestamp[1]) /\ IsDigit(timestamp[2])
            /\ DigitVal(timestamp[2]) < UnitsPerHour
         THEN [exc |-> "none",
               time |-> DigitVal(timestamp[1]) * UnitsPerHour + DigitVal(timestamp[2])]
         ELSE [exc |-> "ValueError"]

----------------------------------------------------------------------------
(* The inputs *)

Products == {"P1", "P2"}
Sats == {"16", "17"}
ArgLists == {<<<<"P1">>, <<"16">>>>, <<<<"P1", "P1">>, <<"16">>>>,
             <<<<"P1", "P2">>, <<"16">>>>, <<<<"P1">>, <<"16", "17">>>>,
             <<<<>>, <<"16">>>>}

\* the name the store gives the scan of channel ch that started at time t
Name(ch, t) == <<"O", "_", ch, "_", "G", "_", "s",
                 Digits[HourIdx(t) + 1], Digits[(t % UnitsPerHour) + 1], "0">>
Garbled == <<"O", "_", "2", "_", "G", "_", "s", "x", "0", "0">>
Short == <<"R", "_", "2">>
RemoteSize == 2       \* size of every remote object
StaleSize == 1        \* size of a stale or partly written local file

\* the objects under an hour: a scan of channel 1 that started with the hour
\* and a scan of channel 2 that started in its last time unit
Scans(hr) ==
    <<[name |-> Name("1", hr * UnitsPerHour), Size |-> RemoteSize],
      [name |-> Name("2", hr * UnitsPerHour + UnitsPerHour - 1), Size |-> RemoteSize]>>

\* a filter of the caller: keeps the files of channel 1
Contains(s, sub) ==
    \E i \in 1..Len(s) : i + Len(sub) - 1 <= Len(s) /\ SubSeq(s, i, i + Len(sub) - 1) = sub
Filters == {"None", "channel1"}
FnFilter(f, fn) == Contains(fn, <<"_", "1", "_">>)

----------------------------------------------------------------------------
(* The store and the local mirror before the first run *)

AllDirKeys == {<<s, p, hr>> : s \in Sats, p \in Products, hr \in Hours}
Faults == {<<"none", 0>>} \cup ({"missing", "misnamed", "misfiled"} \X Hours)

\* the listing of an hour: its scans; when the fault asks for it, with a
\* misnamed object after the first scan, or with a scan that started with the
\* next hour in place of the second scan
Listing(hr, fault) ==
    LET bad == [name |-> IF hr % 2 = 0 THEN Garbled ELSE Short,
                Size |-> RemoteSize]
        late == [name |-> Name("1", (hr + 1) * UnitsPerHour), Size |-> RemoteSize]
    IN  IF fault[1] = "misnamed" /\ fault[2] = hr
        THEN <<Scans(hr)[1], bad, Scans(hr)[2]>>
        ELSE IF fault[1] = "misfiled" /\ fault[2] = hr
        THEN <<Scans(hr)[1], late>>
        ELSE Scans(hr)

Store(fault) ==
    LET present == {k \in AllDirKeys : ~(fault[1] = "missing" /\ fault[2] = k[3])}
        dirOf(k) == AwsDir(k[1], k[2], k[3] * UnitsPerHour)
    IN  [d \in {dirOf(k) : k \in present} |->
            Listing((CHOOSE k \in present : dirOf(k) = d)[3], fault)]

\* the mirror before the run: per channel, absent, of the remote size, or stale
Mirrors == {<<"absent", "absent">>, <<"same", "stale">>}
MirrorFiles(m) ==
    LET had == {<<k, i>> \in AllDirKeys \X {1, 2} : m[i] # "absent"}
        pathOf(e) == PathJoin(LocalDir(e[1][1], e[1][2], e[1][3] * UnitsPerHour),
                              Scans(e[1][3])[e[2]].name)
    IN  [f \in {pathOf(e) : e \in had} |->
            LET e == CHOOSE e \in had : pathOf(e) = f
            IN  IF m[e[2]] = "same"
                THEN RemoteSize ELSE StaleSize]
DirOfFile(f) == SubSeq(f, 1, Len(f) - 1)

----------------------------------------------------------------------------
(* The loops of mirror_s3 *)

first_hour == FloorHour(start_time)
\* a last hour that leaves out the hour that starts at end_time
last_hour_exclusive == FloorHour(end_time - 1)
last_hour == FloorHour(end_time)

Done == [pc |-> "done", pi |-> 0, si |-> 0, h |-> 0]

\* where control is when the loops are entered at product p and sat s
RECURSIVE Enter(_, _)
Enter(p, s) ==
    IF p > Len(products) THEN Done
    ELSE IF s > Len(sats) THEN Enter(p + 1, 1)
    ELSE IF first_hour <= last_hour
         THEN [pc |-> "ls", pi |-> p, si |-> s, h |-> first_hour]
         ELSE Enter(p, s + 1)

\* a loop that moves on from the hour after t
AdvanceSkipping(t) ==
    IF t + UnitsPerHour <= last_hour
    THEN [pc |-> "ls", pi |-> pi, si |-> si, h |-> t + UnitsPerHour]
    ELSE Enter(pi, si + 1)
\* where control is after the finally clause has set the cursor to t
Advance(t) ==
    IF t <= last_hour THEN [pc |-> "ls", pi |-> pi, si |-> si, h |-> t]
    ELSE Enter(pi, si + 1)

Goto(pos) == pc' = pos.pc /\ pi' = pos.pi /\ si' = pos.si /\ h' = pos.h

\* a prefix built from the first satellite, whatever the loop is at
aws_dir_first_sat == AwsDir(sats[1], products[pi], h)
aws_dir == AwsDir(sats[si], products[pi], h)
local_dir == LocalDir(sats[si], products[pi], h)

\* a try statement without the except clause
ExceptNothing(exc, op, v) ==
    /\ err' = exc
    /\ pc' = "raised"
    /\ h' = h + UnitsPerHour
    /\ UNCHANGED <<pi, si, reported, caught>>

\* an exception of kind exc raised by op inside the try statement of visit v
Except(exc, op, v) ==
    IF exc = "FileNotFoundError"
    THEN /\ reported' = Append(reported, aws_dir)
         /\ caught' = caught \cup {[visit |-> v, op |-> op]}
         /\ err' = err
         /\ Goto(Advance(h + UnitsPerHour))
    ELSE /\ err' = exc
         /\ pc' = "raised"
         /\ h' = h + UnitsPerHour
         /\ UNCHANGED <<pi, si, reported, caught>>

----------------------------------------------------------------------------
(* should_download and the environment it reads *)

\* fs.info(aws_file)["Size"]
InfoSize(aws_file) ==
    LET objs == remote[DirOfFile(aws_file)]
    IN  objs[CHOOSE i \in 1..Len(objs) : objs[i].name = Last(aws_file)].Size

InfoOutcomes == {"ok", "FileNotFoundError", "ConnectionError"}

\* (fn_filter is not None) and not fn_filter(fn)
Rejected(fn) == fn_filter # "None" /\ ~FnFilter(fn_filter, fn)

\* a window that asks for one of its two bounds only
InWindowEither(t) == start_time <= t \/ t < end_time
\* a window that takes end_time in
InWindowInclusive(t) == start_time <= t /\ t <= end_time
\* start_time <= file_time < end_time
InWindow(t) == start_time <= t /\ t < end_time

\* a comparison of the info record itself, never equal to a size
SizeDiffersAlways(aws_size, local_size) == TRUE
\* a comparison the wrong way round
SizeSame(aws_size, local_size) == aws_size = local_size
\* a local file is never fetched again
SizeDiffersNever(aws_size, local_size) == FALSE
\* aws_size != local_size
SizeDiffers(aws_size, local_size) == aws_size # local_size

\* a should_download that parses the timestamp before it asks the filter
ShouldDownloadParseFirst(aws_file, local_file, info) ==
    LET fn == Last(aws_file)
        file_time == ParseTime(fn)
    IN  IF file_time.exc # "none"
        THEN [ret |-> "raise", exc |-> file_time.exc, ops |-> {"strptime"}]
        ELSE IF Rejected(fn) \/ ~InWindow(file_time.time)
        THEN [ret |-> "False", exc |-> "none", ops |-> {"strptime"}]
        ELSE IF overwrite \/ local_file \notin DOMAIN local
        THEN [ret |-> "True", exc |-> "none", ops |-> {"strptime"}]
        ELSE [ret |-> IF SizeDiffers(InfoSize(aws_file), local[local_file])
                      THEN "True" ELSE "False",
              exc |-> "none", ops |-> {"strptime", "isfile", "info", "getsize"}]

\* the answer ("True", "False" or "raise"), the exception raised and the reads
\* made, when fs.info ends as info says
ShouldDownload(aws_file, local_file, info) ==
    LET fn == Last(aws_file) IN
    IF Rejected(fn)
    THEN [ret |-> "False", exc |-> "none", ops |-> {}]
    ELSE
    LET file_time == ParseTime(fn) IN
    IF file_time.exc # "none"
    THEN [ret |-> "raise", exc |-> file_time.exc, ops |-> {"strptime"}]
    ELSE IF ~InWindow(file_time.time)
    THEN [ret |-> "False", exc |-> "none", ops |-> {"strptime"}]
    ELSE IF ~overwrite
    THEN IF local_file \in DOMAIN local
         THEN IF info # "ok"
              THEN [ret |-> "raise", exc |-> info,
                    ops |-> {"strptime", "isfile", "info"}]
              ELSE [ret |-> IF SizeDiffers(InfoSize(aws_file), local[local_file])
                            THEN "True" ELSE "False",
                    exc |-> "none",
                    ops |-> {"strptime", "isfile", "info", "getsize"}]
         ELSE [ret |-> "True", exc |-> "none", ops |-> {"strptime", "isfile"}]
    ELSE [ret |-> "True", exc |-> "none", ops |-> {"strptime"}]

----------------------------------------------------------------------------
(* The steps of mirror_s3 *)

visit == Len(listed)    \* the ordinal of the bucket being processed

\* files = fs.ls(aws_dir)
LsFound ==
    /\ pc = "ls"
    /\ aws_dir \in DOMAIN remote
    /\ listed' = Append(listed, aws_dir)
    /\ files' = [i \in 1..Len(remote[aws_dir]) |->
                    PathJoin(Tail(aws_dir), remote[aws_dir][i].name)]
    /\ pc' = "makedirs"
    /\ UNCHANGED <<args, env, pi, si, h, fi, jobs, tasks, reported, diffs,
                   caught, err, runs>>

\* fs.ls(aws_dir) raises FileNotFoundError, or fails otherwise
LsRaises ==
    /\ pc = "ls"
    /\ listed' = Append(listed, aws_dir)
    /\ \/ aws_dir \notin DOMAIN remote /\ Except("FileNotFoundError", "ls", visit + 1)
       \/ Except("ConnectionError", "ls", visit + 1)
    /\ UNCHANGED <<args, env, files, fi, jobs, tasks, diffs, runs>>

\* no directory made at all
MakedirsNever(d) == dirs
\* directories made in a dry run too
MakedirsAlways(d) == dirs \cup {d}
\* the directories after "if not test: os.makedirs(local_dir, exist_ok=True)"
Makedirs(d) == IF test THEN dirs ELSE dirs \cup {d}

\* if not test: os.makedirs(local_dir, exist_ok=True); jobs = []
MakeDirs ==
    /\ pc = "makedirs"
    /\ \/ /\ dirs' = Makedirs(local_dir)
          /\ jobs' = <<>>
          /\ fi' = 1
          /\ pc' = "diff"
          /\ UNCHANGED <<pi, si, h, reported, caught, err>>
       \/ /\ ~test
          /\ Except("PermissionError", "makedirs", visit)
          /\ UNCHANGED <<dirs, jobs, fi>>
    /\ UNCHANGED <<args, remote, local, files, tasks, listed, diffs, runs>>

\* a download that is not delayed: the transfer starts when it is called
download_eager(v, aws_file, local_file) ==
    [visit |-> v, aws_file |-> aws_file, local_file |-> local_file,
     st |-> "running", exc |-> "none"]
\* download(aws_file, local_file) under @dask.delayed: a task that has not
\* started, made in visit v
download(v, aws_file, local_file) ==
    [visit |-> v, aws_file |-> aws_file, local_file |-> local_file,
     st |-> "delayed", exc |-> "none"]

\* every file of the listing written under the name of the first
LocalFileOfFirst(dir, fn) == PathJoin(dir, Last(files[1]))
\* local_file = os.path.join(local_dir, fn)
LocalFile(dir, fn) == PathJoin(dir, fn)

\* one iteration of "for path in files"
Diff ==
    /\ pc = "diff"
    /\ fi <= Len(files)
    /\ \E fn \in {Last(files[fi])} :
       \E aws_file \in {PathJoin(aws_dir, fn)} :
       \E local_file \in {LocalFile(local_dir, fn)} :
       \E info \in InfoOutcomes :
       \E r \in {ShouldDownload(aws_file, local_file, info)} :
           /\ diffs' = diffs \cup
                 {[visit |-> visit, fn |-> fn, ret |-> r.ret, ops |-> r.ops,
                   size |-> remote[aws_dir][fi].Size,
                   had |-> IF local_file \in DOMAIN local THEN local[local_file] ELSE -1]}
           /\ IF r.ret = "raise"
              THEN /\ Except(r.exc, "should_download", visit)
                   /\ UNCHANGED <<fi, jobs, tasks>>
              ELSE /\ fi' = fi + 1
                   /\ IF r.ret = "True"
                      THEN /\ tasks' = Append(tasks,
                                  download(visit, aws_file, local_file))
                           /\ jobs' = Append(jobs, Len(tasks) + 1)
                      ELSE UNCHANGED <<jobs, tasks>>
                   /\ UNCHANGED <<pc, pi, si, h, reported, caught, err>>
    /\ UNCHANGED <<args, env, files, listed, runs>>

JobSet == {jobs[i] : i \in 1..Len(jobs)}
Running == {j \in 1..Len(tasks) : tasks[j].st = "running"}

\* dask.compute(jobs, scheduler='processes') is called
Compute ==
    /\ pc = "diff"
    /\ fi > Len(files)
    /\ tasks' = [j \in 1..Len(tasks) |->
                    IF j \in JobSet THEN [tasks[j] EXCEPT !.st = "pending"] ELSE tasks[j]]
    /\ pc' = "compute"
    /\ UNCHANGED <<args, env, pi, si, h, files, fi, jobs, hist, runs>>

\* the scheduler hands a task of the batch to a free worker
Dispatch ==
    /\ pc = "compute"
    /\ Cardinality(Running) < NumWorkers
    /\ \E j \in JobSet :
          /\ tasks[j].st = "pending"
          /\ tasks' = [tasks EXCEPT ![j].st = "running"]
    /\ UNCHANGED <<args, env, driver, hist, runs>>

\* a worker runs download(aws_file, local_file) to its end
TransferDone ==
    \E j \in Running :
       /\ IF test
          THEN /\ tasks' = [tasks EXCEPT ![j].st = "done"]
               /\ local' = local
          ELSE IF DirOfFile(tasks[j].local_file) \in dirs
          THEN /\ tasks' = [tasks EXCEPT ![j].st = "done"]
               /\ local' = (tasks[j].local_file :> InfoSize(tasks[j].aws_file)) @@ local
          ELSE /\ tasks' = [tasks EXCEPT ![j].st = "failed",
                                         ![j].exc = "FileNotFoundError"]
               /\ local' = local
       /\ UNCHANGED <<args, remote, dirs, driver, hist, runs>>

\* a failing transfer that removes what the finished tasks of its batch wrote
TransferFailsRollback ==
    \E j \in Running :
       /\ ~test
       /\ tasks' = [tasks EXCEPT ![j].st = "failed", ![j].exc = "ConnectionError"]
       /\ LET written == {tasks[k].local_file :
                            k \in {i \in JobSet : tasks[i].st = "done"}}
          IN  local' = [f \in DOMAIN local \ written |-> local[f]]
       /\ UNCHANGED <<args, remote, dirs, driver, hist, runs>>

\* fs.get raises in a worker: the object is gone and nothing is written, or
\* the connection fails after part of the file is written
TransferFails ==
    \E j \in Running :
       /\ ~test
       /\ \/ /\ tasks' = [tasks EXCEPT ![j].st = "failed",
                                        ![j].exc = "FileNotFoundError"]
             /\ local' = local
          \/ /\ tasks' = [tasks EXCEPT ![j].st = "failed",
                                        ![j].exc = "ConnectionError"]
             /\ DirOfFile(tasks[j].local_file) \in dirs
             /\ local' = (tasks[j].local_file :> StaleSize) @@ local
       /\ UNCHANGED <<args, remote, dirs, driver, hist, runs>>

\* a scheduler that returns at the first failure, workers still running
BatchIdleOnFailure ==
    \/ JobSet \cap Running = {}
    \/ \E j \in JobSet : tasks[j].st = "failed"
\* the pool of the batch has shut down: no worker is running a task of it
BatchIdle == JobSet \cap Running = {}

\* dask.compute returns, or raises the exception of a failed task
ComputeReturns ==
    /\ pc = "compute"
    /\ BatchIdle
    /\ LET failed == {j \in JobSet : tasks[j].st = "failed"}
           pending == {j \in JobSet : tasks[j].st = "pending"}
       IN  IF failed = {}
           THEN /\ pending = {}
                /\ Goto(Advance(h + UnitsPerHour))
                /\ UNCHANGED <<tasks, reported, caught, err>>
           ELSE /\ \E j \in failed : Except(tasks[j].exc, "compute", visit)
                /\ tasks' = [j \in 1..Len(tasks) |->
                                IF j \in pending
                                THEN [tasks[j] EXCEPT !.st = "dropped"] ELSE tasks[j]]
    /\ UNCHANGED <<args, env, files, fi, jobs, listed, diffs, runs>>

\* mirror_s3 is called again with the same arguments, once the first call has
\* returned or raised
Rerun ==
    /\ run = 1
    /\ pc \in {"done", "raised"}
    /\ run' = 2
    /\ first' = [err |-> err, caught |-> {c.op : c \in caught},
                 tasks |-> Len(tasks)]
    /\ local0' = local /\ dirs0' = dirs
    /\ Goto(Enter(1, 1))
    /\ files' = <<>> /\ fi' = 1 /\ jobs' = <<>> /\ tasks' = <<>>
    /\ listed' = <<>> /\ reported' = <<>> /\ diffs' = {} /\ caught' = {}
    /\ err' = "none"
    /\ UNCHANGED <<args, env>>

----------------------------------------------------------------------------
(* Specifications *)

Init ==
    /\ \E a \in ArgLists : products = a[1] /\ sats = a[2]
    /\ start_time \in Times
    /\ end_time \in Times
    /\ overwrite \in BOOLEAN
    /\ test \in BOOLEAN
    /\ fn_filter \in Filters
    /\ \E fault \in Faults : remote = Store(fault)
    /\ \E m \in Mirrors : local = MirrorFiles(m)
    /\ dirs = {DirOfFile(f) : f \in DOMAIN local}
    /\ pc = Enter(1, 1).pc /\ pi = Enter(1, 1).pi
    /\ si = Enter(1, 1).si /\ h = Enter(1, 1).h
    /\ files = <<>> /\ fi = 1 /\ jobs = <<>> /\ tasks = <<>>
    /\ listed = <<>> /\ reported = <<>> /\ diffs = {} /\ caught = {}
    /\ err = "none"
    /\ run = 1
    /\ first = [err |-> "none", caught |-> {}, tasks |-> 0]
    /\ local0 = local /\ dirs0 = dirs

Next ==
    \/ LsFound
    \/ LsRaises
    \/ MakeDirs
    \/ Diff
    \/ Compute
    \/ Dispatch
    \/ TransferDone
    \/ TransferFails
    \/ ComputeReturns

Spec == Init /\ [][Next]_vars

\* every call made by the run returns or raises, so the run takes its next step
InitFair ==
    /\ Init
    /\ fn_filter = "None"
    /\ ~overwrite
    /\ local = MirrorFiles(<<"same", "stale">>)
SpecFair == InitFair /\ [][Next]_vars /\ WF_vars(Next)

\* two runs in succession with overwrite=False, of one product and satellite
InitTwice == Init /\ ~overwrite /\ Len(products) = 1 /\ Len(sats) = 1
NextTwice == Next \/ Rerun
SpecTwice == InitTwice /\ [][NextTwice]_vars

----------------------------------------------------------------------------
(* Properties *)

\* the buckets a run has to list: for each product and satellite in turn,
\* the hours from that of start_time to that of end_time
HoursToList ==
    IF HourIdx(start_time) <= HourIdx(end_time)
    THEN HourIdx(end_time) - HourIdx(start_time) + 1 ELSE 0
Expected ==
    [i \in 1..(Len(products) * Len(sats) * HoursToList) |->
        AwsDir(sats[(((i - 1) \div HoursToList) % Len(sats)) + 1],
               products[((i - 1) \div (HoursToList * Len(sats))) + 1],
               (HourIdx(start_time) + ((i - 1) % HoursToList)) * UnitsPerHour)]
IsPrefix(s, t) == Len(s) <= Len(t) /\ \A i \in 1..Len(s) : s[i] = t[i]
InSeq(x, s) == \E i \in 1..Len(s) : s[i] = x

\* C1: only a missing bucket, that is a FileNotFoundError of the listing, is
\* absorbed; an error of any other operation of a bucket terminates the run.
C1_OnlyMissingBucketAbsorbed == \A c \in caught : c.op = "ls"

\* C2: when the listing of the k-th bucket reports not found, the run reports
\* it and goes on with bucket k+1 of the enumeration (the next hour, or the
\* first hour of the next pair); it ends only after the last bucket.
C2_BucketIsolation ==
    /\ IsPrefix(listed, Expected)
    /\ \A k \in 1..Len(listed) :
          (listed[k] \notin DOMAIN remote
              /\ ~(k = Len(listed) /\ err = "ConnectionError"))
          => /\ InSeq(listed[k], reported)
             /\ err # "FileNotFoundError"
             /\ k = Len(listed) =>
                   IF k < Len(Expected)
                   THEN pc = "ls" /\ aws_dir = Expected[k + 1]
                   ELSE pc = "done"
C2_Witness ==
    /\ pc = "done"
    /\ Len(products) * Len(sats) > 1
    /\ \E k \in 1..Len(listed) :
          /\ listed[k] \notin DOMAIN remote
          /\ k < Len(listed)
          /\ \E j \in 1..Len(tasks) : tasks[j].visit > k /\ tasks[j].st = "done"

\* the times an object name can carry: name fn is the scan that started at t
ScanTimes == 0..(MaxTime + UnitsPerHour)
IsScanAt(fn, t) == \E ch \in {"1", "2"} : fn = Name(ch, t)
WithinWindow(fn) ==
    \E t \in ScanTimes : IsScanAt(fn, t) /\ start_time <= t /\ t < end_time

\* the first run returned, and no size query or transfer of it failed
FirstRunClean == first.err = "none" /\ first.caught \subseteq {"ls"}

C4_WindowCorrectness ==
    \A j \in 1..Len(tasks) : WithinWindow(Last(tasks[j].aws_file))
C4_Witness ==
    /\ tasks # <<>>
    /\ \E d \in diffs, t \in ScanTimes :
          /\ IsScanAt(d.fn, t) /\ t = end_time
          /\ d.ret = "False" /\ ~Rejected(d.fn)
    /\ \E d \in diffs, t \in ScanTimes :
          /\ IsScanAt(d.fn, t) /\ t < start_time
          /\ d.ret = "False" /\ ~Rejected(d.fn)

\* C5 as claimed: for a listed object that has a local file, a task is
\* created when the sizes differ, and none when they are equal and
\* overwrite=False (here even granted that the size query does not fail).
C5_SizeDiffOfEveryListedObject ==
    \A d \in diffs :
       (d.had # -1 /\ d.ret # "raise") =>
          /\ d.had # d.size => d.ret = "True"
          /\ (d.had = d.size /\ ~overwrite) => d.ret # "True"

\* C5 as amended: for a listed object that passes the filter, has its
\* timestamp in the window and has a local file, whose size query (made when
\* overwrite=False) does not fail: a task is created when the sizes differ,
\* whatever overwrite is; when they are equal, a task is created exactly
\* when overwrite=True.
C5_SizeDiffOfEligibleObject ==
    \A d \in diffs :
       (d.had # -1 /\ ~Rejected(d.fn) /\ WithinWindow(d.fn) /\ d.ret # "raise") =>
          /\ d.had # d.size => d.ret = "True"
          /\ d.had = d.size => (d.ret = "True" <=> overwrite)
C5_Witness ==
    /\ ~overwrite
    /\ \E d \in diffs : d.had # -1 /\ d.had # d.size /\ d.ret = "True"
    /\ \E d \in diffs : d.had = d.size /\ d.ret = "False" /\ WithinWindow(d.fn)

\* C6: an object whose name fn_filter rejects gets no timestamp parse, no
\* local existence check, no remote size query, no task and no error, and
\* the loop goes on to the next listed object.
C6_RejectedStep ==
    (pc = "diff" /\ fi <= Len(files) /\ Rejected(Last(files[fi]))) =>
        /\ pc' = "diff" /\ fi' = fi + 1
        /\ tasks' = tasks /\ err' = err /\ caught' = caught
        /\ \E d \in diffs' :
              d.visit = visit /\ d.fn = Last(files[fi]) /\ d.ops = {} /\ d.ret = "False"
        /\ \A d \in diffs' : Rejected(d.fn) => d.ops = {}
C6_PredicateShortCircuit == [][C6_RejectedStep]_vars
C6_Witness ==
    /\ pc = "done"
    /\ \E d \in diffs : Rejected(d.fn) /\ ParseTime(d.fn).exc # "none"
    /\ \E d \in diffs : Rejected(d.fn) /\ d.had # -1
    /\ tasks # <<>>

\* C7: for start_time < end_time, a run that no error leaves has listed, for
\* each product and satellite in turn, exactly the hours from the hour of
\* start_time to the hour of end_time, each once and in increasing order.
PairsToList == Len(products) * Len(sats)
C7_BucketEnumeration ==
    (pc = "done" /\ start_time < end_time) =>
        /\ Len(listed) = PairsToList * HoursToList
        /\ \A q \in 1..PairsToList :
           \A k \in 1..HoursToList :
              LET d == listed[(q - 1) * HoursToList + k]
                  hr == HourIdx(start_time) + k - 1
              IN  /\ d[2] = <<"noaa-goes", sats[((q - 1) % Len(sats)) + 1]>>
                  /\ d[3] = products[((q - 1) \div Len(sats)) + 1]
                  /\ <<d[4], d[5], d[6]>> = <<2020, EpochDay + (EpochHour + hr) \div 24,
                                              (EpochHour + hr) % 24>>
                  /\ HourIdx(start_time) <= hr /\ hr <= HourIdx(end_time)
C7_Witness ==
    /\ pc = "done"
    /\ start_time < end_time
    /\ end_time % UnitsPerHour = 0
    /\ PairsToList > 1
    /\ Len(listed) = 2 * PairsToList
    /\ listed[Len(listed)][6] = (EpochHour + HourIdx(end_time)) % 24

\* C8: a task is pending or running only while dask.compute of its own
\* bucket is in progress: never during the listing, the diff or the batch of
\* another bucket, and never after the run has ended; so all running
\* transfers belong to one bucket.
C8_StrictBucketSequencing ==
    \A j \in 1..Len(tasks) :
       tasks[j].st \in {"pending", "running"} =>
          pc = "compute" /\ tasks[j].visit = visit
C8_Witness ==
    /\ Cardinality(Running) = 2
    /\ \E j \in 1..Len(tasks) : tasks[j].visit < visit /\ tasks[j].st = "done"
    /\ \E j \in 1..Len(tasks) : tasks[j].visit < visit /\ tasks[j].st = "failed"

\* C9: in a run with test=True no local directory is created and no local
\* file is written; the tasks the diff accepted run and only announce.
C9_DryRunLeavesMirrorUnchanged ==
    test => /\ local = local0
            /\ dirs = dirs0
            /\ \A j \in 1..Len(tasks) : tasks[j].st # "failed"
C9_Witness ==
    /\ test
    /\ pc = "done"
    /\ \E j \in 1..Len(tasks) :
          /\ tasks[j].st = "done"
          /\ tasks[j].local_file \notin DOMAIN local
          /\ DirOfFile(tasks[j].local_file) \notin dirs

\* C10 as claimed: in one run, whatever the products and satellites lists
\* are, no two download tasks are created for the same bucket and filename
\* (here even granted that no size query and no transfer fails).
C10_OneTaskPerObject ==
    (\A c \in caught : c.op = "ls") =>
        \A i, j \in 1..Len(tasks) :
           tasks[i].aws_file = tasks[j].aws_file => i = j

\* C10 as amended: in one run whose products list and whose satellites list
\* name no entry twice, no two download tasks are created for the same
\* bucket and filename, for every overwrite and test.
NoRepeats(s) == \A i, j \in 1..Len(s) : s[i] = s[j] => i = j
C10_OneTaskPerObjectOfDistinctPairs ==
    (NoRepeats(products) /\ NoRepeats(sats)) =>
        \A i, j \in 1..Len(tasks) :
           (tasks[i].local_file = tasks[j].local_file
               \/ tasks[i].aws_file = tasks[j].aws_file) => i = j
C10_Witness ==
    /\ NoRepeats(products) /\ NoRepeats(sats)
    /\ pc = "done"
    /\ \E i, j \in 1..Len(tasks) :
          /\ Last(tasks[i].aws_file) = Last(tasks[j].aws_file)
          /\ tasks[i].visit # tasks[j].visit

\* C11: when an error has terminated the run in a bucket, every download task
\* of the buckets processed before it has completed its transfer, and no
\* bucket after it has been listed.
C11_EarlierBucketsFullyProcessed ==
    pc = "raised" =>
        /\ \A j \in 1..Len(tasks) : tasks[j].visit < visit => tasks[j].st = "done"
        /\ IsPrefix(listed, Expected)

\* the same, for the runs whose except clause has absorbed nothing but
\* not-found listings
C11_EarlierBucketsFullyProcessedUnlessAbsorbed ==
    (pc = "raised" /\ \A c \in caught : c.op = "ls") =>
        /\ \A j \in 1..Len(tasks) : tasks[j].visit < visit => tasks[j].st = "done"
        /\ IsPrefix(listed, Expected)

\* the local path that mirrors object name of the listed prefix dir
MirrorPath(dir, name) == PathJoin(<<"mirror_dir">> \o Tail(dir), name)

\* C12: after a first run that an error terminated, a second run with the
\* same arguments, overwrite=False and test=False, in which nothing fails,
\* ends with every listed object that passes the filter and lies in the
\* window present at its mirrored path with the remote size.
C12_SafeResume ==
    (run = 2 /\ pc = "done" /\ ~test /\ first.err # "none"
        /\ \A c \in caught : c.op = "ls") =>
        \A k \in 1..Len(listed) :
           listed[k] \in DOMAIN remote =>
              \A i \in 1..Len(remote[listed[k]]) :
                 LET o == remote[listed[k]][i]
                     f == MirrorPath(listed[k], o.name)
                 IN  (~Rejected(o.name) /\ WithinWindow(o.name)) =>
                        f \in DOMAIN local /\ local[f] = o.Size
C12_Witness ==
    /\ run = 2 /\ pc = "done" /\ ~test
    /\ first.err = "ConnectionError"
    /\ \A c \in caught : c.op = "ls"
    /\ \E f \in DOMAIN local0 :
          /\ Contains(Last(f), <<"_", "1", "_">>)
          /\ local0[f] = StaleSize
          /\ local[f] = RemoteSize

\* the (satellite, product, year, day of year, hour, filename) tuple that the
\* layout rule reads from a path of seven segments below its root
LayoutTuple(path) ==
    <<path[2][2], path[3], path[4], path[5], path[6], path[7]>>

\* C13: for every download task the local path below mirror_dir has the
\* segments of the remote key below the store, so the layout rule applied to
\* the local path gives the tuple the remote key was built from; and tasks of
\* two different buckets never have the same local path.
C13_LayoutRoundTrip ==
    /\ \A j \in 1..Len(tasks) :
          /\ Len(tasks[j].local_file) = 7
          /\ Tail(tasks[j].local_file) = Tail(tasks[j].aws_file)
          /\ tasks[j].local_file[2][1] = "noaa-goes"
          /\ DirOfFile(tasks[j].aws_file) = listed[tasks[j].visit]
          /\ LayoutTuple(tasks[j].local_file) =
                <<listed[tasks[j].visit][2][2], listed[tasks[j].visit][3],
                  listed[tasks[j].visit][4], listed[tasks[j].visit][5],
                  listed[tasks[j].visit][6], Last(tasks[j].aws_file)>>
    /\ \A i, j \in 1..Len(tasks) :
          DirOfFile(tasks[i].aws_file) # DirOfFile(tasks[j].aws_file)
             => tasks[i].local_file # tasks[j].local_file
C13_Witness ==
    /\ pc = "done"
    /\ \E i, j \in 1..Len(tasks) :
          /\ tasks[i].aws_file[3] # tasks[j].aws_file[3]
          /\ Last(tasks[i].aws_file) = Last(tasks[j].aws_file)
    /\ \E i, j \in 1..Len(tasks) :
          /\ tasks[i].aws_file[5] # tasks[j].aws_file[5]

\* C14: the step in which dask.compute ends with a failed task hands the
\* failure to the driver (it is raised into the try statement: absorbed by its
\* except clause or ending the run), is taken only when no task of the batch
\* is running any more, and leaves every file written by a finished task of
\* the batch in place with its full size.
C14_BatchFailureStep ==
    (pc = "compute" /\ pc' # "compute"
        /\ \E j \in JobSet : tasks[j].st = "failed") =>
        /\ JobSet \cap Running = {}
        /\ \/ err = "none" /\ err' \in {tasks[j].exc : j \in JobSet} \ {"none"}
           \/ err' = err /\ [visit |-> visit, op |-> "compute"] \in caught' \ caught
        /\ local' = local /\ dirs' = dirs
        /\ \A j \in JobSet :
              (tasks[j].st = "done" /\ ~test) =>
                 /\ tasks'[j].st = "done"
                 /\ tasks[j].local_file \in DOMAIN local'
                 /\ local'[tasks[j].local_file] = InfoSize(tasks[j].aws_file)
C14_BatchFailureWithoutRollback == [][C14_BatchFailureStep]_vars
C14_Witness ==
    /\ pc = "raised" /\ err = "ConnectionError" /\ ~test
    /\ \E i, j \in JobSet :
          /\ tasks[i].st = "done"
          /\ tasks[j].st = "failed"
          /\ tasks[i].local_file \notin DOMAIN local0
          /\ local[tasks[i].local_file] = RemoteSize
          /\ local[tasks[j].local_file] = StaleSize

\* C15: no two tasks of one bucket's batch have the same local path, so at no
\* moment do two running transfers write the same file.
C15_NoWriteContention ==
    /\ \A i, j \in JobSet : i # j => tasks[i].local_file # tasks[j].local_file
    /\ \A i, j \in Running : i # j => tasks[i].local_file # tasks[j].local_file
C15_Witness ==
    /\ ~test
    /\ Cardinality(Running) = 2
    /\ Running \subseteq JobSet

\* the local directory that mirrors the listed prefix dir
MirrorDir(dir) == <<"mirror_dir">> \o Tail(dir)

\* C16: in a run that is not a dry run, the local directory of a bucket exists
\* from the end of its makedirs step on: while its objects are examined, when
\* any of its transfers has started, and for every bucket whose listing
\* succeeded and that has been left behind, whether or not it has a task.
C16_DirectoryBeforeTransfer ==
    ~test =>
        /\ pc \in {"diff", "compute"} => local_dir \in dirs
        /\ \A j \in 1..Len(tasks) :
              tasks[j].st \in {"running", "done", "failed"} =>
                 DirOfFile(tasks[j].local_file) \in dirs
        /\ \A k \in 1..Len(listed) :
              (listed[k] \in DOMAIN remote /\ (k < visit \/ pc \in {"diff", "compute"}))
                 => MirrorDir(listed[k]) \in dirs
C16_Witness ==
    /\ ~test
    /\ Running # {}
    /\ \E k \in 1..Len(listed) :
          /\ k < visit
          /\ listed[k] \in DOMAIN remote
          /\ \A j \in 1..Len(tasks) : tasks[j].visit # k
          /\ MirrorDir(listed[k]) \notin dirs0
          /\ MirrorDir(listed[k]) \in dirs
    /\ \E j \in Running : DirOfFile(tasks[j].local_file) \notin dirs0

\* the step ends an iteration of the while loop: the finally clause has run
EndsIteration == pc \notin {"done", "raised"} /\ pc' \in {"ls", "done", "raised"}

\* C17: every run ends (returns or raises) when each of its steps is taken,
\* and every iteration of the while loop, whether its bucket was processed,
\* was not found or raised an error, moves the cursor on by exactly one hour:
\* the loop then lists the next hour of the same pair, or leaves the pair
\* when that hour is past last_hour.
C17_CursorStep ==
    EndsIteration =>
        IF pc' = "raised" THEN h' = h + UnitsPerHour
        ELSE IF h + UnitsPerHour <= last_hour
        THEN pc' = "ls" /\ h' = h + UnitsPerHour /\ pi' = pi /\ si' = si
        ELSE /\ pc' = "done" \/ (pc' = "ls" /\ h' = first_hour)
             /\ <<pi', si'>> # <<pi, si>>
C17_Termination ==
    /\ <>(pc \in {"done", "raised"})
    /\ [][C17_CursorStep]_vars
C17_Witness ==
    /\ pc = "done"
    /\ Len(listed) >= 3
    /\ \E c \in caught : c.op = "ls"
    /\ \E j \in 1..Len(tasks) : tasks[j].st = "done"

\* the objects of the bucket of visit v have all been examined and accepted
\* or skipped
Diffed(v) ==
    \A i \in 1..Len(remote[listed[v]]) :
       \E d \in diffs :
          d.visit = v /\ d.fn = remote[listed[v]][i].name /\ d.ret # "raise"

\* C18: a task has left the delayed state only if every listed object of its
\* bucket has been diffed; so while a bucket is being diffed none of its
\* transfers has started, and when the run has ended on a file name whose
\* timestamp does not parse, every task of that bucket, those accepted
\* earlier in the listing included, has never started.
C18_DiffBeforeDispatch ==
    /\ \A j \in 1..Len(tasks) :
          tasks[j].st # "delayed" => Diffed(tasks[j].visit)
    /\ pc = "diff" =>
          \A j \in 1..Len(tasks) : tasks[j].visit = visit => tasks[j].st = "delayed"
    /\ err \in {"ValueError", "IndexError"} =>
          /\ pc = "raised"
          /\ \A j \in 1..Len(tasks) : tasks[j].visit = visit => tasks[j].st = "delayed"
C18_Witness ==
    /\ ~test
    /\ pc = "raised"
    /\ err \in {"ValueError", "IndexError"}
    /\ \E j \in 1..Len(tasks) :
          /\ tasks[j].visit = visit
          /\ tasks[j].st = "delayed"
          /\ tasks[j].local_file \notin DOMAIN local
    /\ \E j \in 1..Len(tasks) : tasks[j].visit < visit /\ tasks[j].st = "done"

\* C19: when start_time >= end_time no task is ever made and no file of the
\* mirror changes; the run lists at most one bucket per (product, satellite)
\* pair, the one of the hour that start_time and end_time share, and lists
\* nothing when the hour of start_time is later than that of end_time.
C19_EmptyOrInvertedWindow ==
    start_time >= end_time =>
        /\ tasks = <<>> /\ jobs = <<>>
        /\ local = local0
        /\ Len(listed) <= PairsToList
        /\ IsPrefix(listed, Expected)
        /\ \A k \in 1..Len(listed) :
              /\ HourIdx(start_time) = HourIdx(end_time)
              /\ SubSeq(listed[k], 4, 6) = Partition(FloorHour(end_time))
        /\ HourIdx(start_time) > HourIdx(end_time) => listed = <<>>
C19_Witness ==
    /\ start_time > end_time
    /\ ~test
    /\ pc = "done"
    /\ PairsToList = 2
    /\ Len(listed) = 2
    /\ listed[1] # listed[2]
    /\ \E d \in diffs : d.visit = 2 /\ "strptime" \in d.ops /\ d.ret = "False"

====
